---- MODULE Spec2Model ----
(***************************************************************************)
(* Ingestion pipeline of ncu_overview_analysis.                            *)
(*                                                                         *)
(*  - Spec       : the polling service of src/data_collector.py: the       *)
(*                 scheduler loop (run_collection_loop), one poll cycle    *)
(*                 (collect_data, login, logout) and the storage of one    *)
(*                 payload (DatabaseManager.insert_data).                  *)
(*  - SpecIngest : the backfill ingest of src/request_cloud_api.py         *)
(*                 (insert_ncu_data, check_ids_exist,                      *)
(*                 insert_ncu_data_batch).                                 *)
(*  - SpecLive   : the scheduler loop under its scheduling assumptions.    *)
(*  - SpecService: NCUDataCollectionService.start and stop, called in any  *)
(*                 order, and the collection threads they create.          *)
(*  - SpecWalker : the backfill walker of src/request_cloud_api.py (main): *)
(*                 its one-hour windows and the projects of each window.   *)
(*  - SpecWalkerLive: the walker, every call of a window returning.        *)
(*  - SpecProject: one project of one window: the records fetched for it,  *)
(*                 filtered, transformed and handed to insert_ncu_data.    *)
(*  - SpecLock   : the connection lock of src/data_collector.py and the    *)
(*                 threads that call insert_data on the shared manager.    *)
(*  - SpecBatches: the batch loop of insert_ncu_data and the retry loop of *)
(*                 insert_ncu_data_batch, attempt by attempt.              *)
(*  - SpecPartition: the batches insert_ncu_data cuts its new records in. *)
(*  - SpecLogin  : DataCollector.login, request by request.                *)
(*                                                                         *)
(* Network and storage calls are the only places where the environment     *)
(* decides: every such call is a nondeterministic choice over the          *)
(* outcomes the code distinguishes.                                        *)
(***************************************************************************)
EXTENDS Integers, Sequences, FiniteSets, TLC

VARIABLES
    \* ---- NCUDataCollectionService / DataCollector (src/data_collector.py)
    pc,                     \* position of the collection worker
    stop_event,             \* threading.Event: set by stop()
    quiet,                  \* what is_sleep_time_london() returns now
    wait_left,              \* iterations left in the current wait loop
    consecutive_failures,   \* DataCollector.consecutive_failures
    is_logged_in,           \* DataCollector.is_logged_in
    last_login_time,        \* "None", "recent" (<= 1 h ago) or "over1h"
    attempt,                \* loop index of login()
    depth,                  \* nested collect_data() calls of this cycle
    success,                \* what the top-level collect_data() returned
    \* ---- DatabaseManager of src/data_collector.py
    engine,                 \* "mysql" or "sqlite": which connection is held
    txn,                    \* rows INSERTed on the connection, not committed
    ncu_data,               \* snapshot rows INSERTed by the current poll
    data_collection_tracking, \* tracking rows INSERTed by the current poll
    payload,                \* the data_list of the current poll
    persisted,              \* rows committed during the current poll
    \* ---- history of the scheduler, to state the claims
    outcome,                \* how the current cycle ended
    failed_in_row,          \* failed cycles since the last success/cool-down
    cool_elapsed,           \* seconds waited in the current cool-down
    waited,                 \* the blocking wait the worker's last step made
    \* ---- DatabaseManager of src/request_cloud_api.py (backfill)
    backend,                \* "mysql" or "sqlite": which connection is held
    tcu_overview,           \* rows of the tcu_overview table, per engine
    run,                    \* record of the last insert_ncu_data call
    \* ---- NCUDataCollectionService.start / stop and its threads
    is_running,             \* NCUDataCollectionService.is_running
    collection_thread,      \* the thread start() created last (0: None)
    thread,                 \* position of every collection thread created
    caller,                 \* position of the main thread inside stop()
    returned,               \* what the last call of start() or stop() did
    \* ---- the backfill walker: main() of src/request_cloud_api.py
    clock,                  \* the wall clock, in ticks
    current_now,            \* datetime.now() as read at the top of the loop
    current_start,          \* the cursor: start of the next window
    walker,                 \* position of main() in its loop
    projects,               \* the list fetch_projects_from_master returned
    idx,                    \* the project the window's loop is at
    results,                \* what became of each project of this window
    pauses,                 \* seconds slept after each project of this window
    processed_windows,      \* start of every window processed so far
    project_data,           \* the records fetched for the last project
    processed_data,         \* the records handed to insert_ncu_data for it
    \* ---- DatabaseManager.connection_lock of src/data_collector.py
    connection_lock,        \* the thread that holds the lock (0: free)
    writer,                 \* position of every thread inside insert_data
    \* ---- insert_ncu_data / insert_ncu_data_batch, attempt by attempt
    total_batches,          \* batches of the current insert_ncu_data call
    batch_num,              \* the batch the loop is at
    successful_batches,     \* batches that returned True
    tries,                  \* the attempts made for the current batch
    batches,                \* the batches the loop is through with
    loader,                 \* position of insert_ncu_data
    \* ---- the batches of insert_ncu_data, slice by slice
    new_records,            \* new_data: what check_ids_exist did not report
    offset,                 \* the `i` of for i in range(0, len(new_data), ...)
    taken,                  \* every `batch` the loop has sliced so far
    \* ---- DataCollector.login, request by request
    login_at,               \* position of login() inside an attempt
    login_page,             \* csrf-token meta of the page fetched last
    csrf_token,             \* the local csrf_token of login()
    fetched,                \* the login pages fetched by this call
    posted                  \* the login POSTs made by this call

pollVars == <<pc, stop_event, quiet, wait_left, consecutive_failures,
              is_logged_in, last_login_time, attempt, depth, success,
              engine, txn, ncu_data, data_collection_tracking, payload,
              persisted, outcome, failed_in_row, cool_elapsed, waited>>
ingestVars == <<backend, tcu_overview, run>>
serviceVars == <<is_running, collection_thread, thread, caller, returned>>
walkVars == <<clock, current_now, current_start, walker, projects, idx,
              results, pauses, processed_windows, project_data,
              processed_data>>
lockVars == <<connection_lock, writer>>
batchVars == <<total_batches, batch_num, successful_batches, tries, batches,
               loader>>
partVars == <<new_records, offset, taken>>
tokenVars == <<login_at, login_page, csrf_token, fetched, posted>>
moreVars == <<partVars, tokenVars>>
vars == <<pollVars, ingestVars, serviceVars, walkVars, lockVars, batchVars, moreVars>>

(***************************************************************************)
(* Bounds of the model.                                                    *)
(***************************************************************************)
MaxItems == 3        \* items in one payload handed to insert_data (SpecStore)
MaxPollItems == 1    \* items in one payload fetched by the scheduler (Spec)
MaxPending == 1      \* uncommitted rows of each table left on the connection
MaxDepth == 2        \* nested collect_data() calls after 401 responses
MaxRecs == 3         \* records in one list handed to insert_ncu_data
MaxStarts == 2       \* calls of start() that create a collection thread
MaxClock == 5        \* ticks of the wall clock the walker is followed for
MaxProjects == 2     \* projects in the list of the master endpoint
MaxFetched == 2      \* records the data endpoint returns for one project
MaxBatches == 2      \* batches of one insert_ncu_data call (SpecBatches)
MaxNew == 250        \* new records of one insert_ncu_data call (SpecPartition)

(***************************************************************************)
(* Configuration and literals of src/data_collector.py.                    *)
(***************************************************************************)
interval_minutes == 2
max_retries == 3
retry_delay == 30
max_consecutive_failures == 5
quiet_poll_seconds == 10
cooldown_waits == 20
cooldown_poll_seconds == 30
error_backoff_seconds == 60
CooldownSeconds == cooldown_waits * cooldown_poll_seconds

(***************************************************************************)
(* Configuration and literals of src/request_cloud_api.py.                 *)
(***************************************************************************)
batch_size == 100
batch_max_retries == 3

Engines == {"mysql", "sqlite"}

Min(a, b) == IF a < b THEN a ELSE b

(***************************************************************************)
(* Poll payload.  An item is a map of named fields; the only field the     *)
(* storage logic branches on is `project`: a {value: ...} wrapper, absent, *)
(* or something that is no map (then .get raises AttributeError).          *)
(***************************************************************************)
NoKey == "<absent>"
NotADict == "<not-a-dict>"
Items == [project : {"AAA", "P1", NoKey, NotADict}]
PayloadsUpTo(k) == UNION {[1..n -> Items] : n \in 0..k}

\* item.get('project', {}).get('value', '')
ProjectValue(item) == IF item.project = NoKey THEN "" ELSE item.project

\* the list comprehension of the filter raises on a malformed item
FilterRaises(data_list) ==
    \E i \in 1..Len(data_list) : data_list[i].project = NotADict

KeepsItem(item) == ProjectValue(item) # "AAA"

\* a plausible slip: the exclusion is not applied
filtered_data_unfiltered(data_list) == data_list

\* filtered_data = [item for item in data_list if project value != 'AAA']
filtered_data(data_list) == SelectSeq(data_list, KeepsItem)

(***************************************************************************)
(* DatabaseManager.insert_data (src/data_collector.py).                    *)
(*                                                                         *)
(* The connection is opened with autocommit off: an INSERT stays in the    *)
(* open transaction until connection.commit(), and is discarded when the   *)
(* connection is replaced.  `txn` counts the uncommitted rows per table;   *)
(* the rows the current call INSERTs are logged with their fate `st`:      *)
(* "committed", "pending" (left in the open transaction) or "lost".        *)
(***************************************************************************)
NoTxn == [snap |-> 0, track |-> 0]

SnapshotRow(item) == [project |-> ProjectValue(item), st |-> "pending"]

\* a plausible slip: the excluded items are not counted
SuccessRow_nonexcluded(data_list, inserted_count) ==
    [records_collected |-> Len(data_list),
     records_inserted |-> inserted_count,
     excluded_records |-> 0,
     success |-> 1,
     error_message |-> "",
     st |-> "pending"]

\* a plausible slip: the row reports the rows attempted, not the rows inserted
SuccessRow_attempted(data_list, inserted_count) ==
    [records_collected |-> Len(data_list),
     records_inserted |-> Len(filtered_data(data_list)),
     excluded_records |-> Len(data_list) - Len(filtered_data(data_list)),
     success |-> 1,
     error_message |-> "",
     st |-> "pending"]

\* (date_time, timestamp, len(data_list), inserted_count, excluded_count, 1, ..)
SuccessRow(data_list, inserted_count) ==
    [records_collected |-> Len(data_list),
     records_inserted |-> inserted_count,
     excluded_records |-> Len(data_list) - Len(filtered_data(data_list)),
     success |-> 1,
     error_message |-> "",
     st |-> "pending"]

\* a plausible slip: the failure row is written without the error's text
ErrorRow_nomessage(data_list, e) ==
    [records_collected |-> Len(data_list),
     records_inserted |-> 0,
     excluded_records |-> 0,
     success |-> 0,
     error_message |-> "",
     st |-> "pending"]

\* (datetime.now(), timestamp, len(data_list), 0, 0, 0, str(e), ..)
ErrorRow(data_list, e) ==
    [records_collected |-> Len(data_list),
     records_inserted |-> 0,
     excluded_records |-> 0,
     success |-> 0,
     error_message |-> e,
     st |-> "pending"]

Mark(rows, st) == [i \in 1..Len(rows) |-> [rows[i] EXCEPT !.st = st]]

\* ensure_connection(): the connection answers ("alive"), or it is replaced
\* through create_connection(), which probes MySQL and falls back to SQLite;
\* the replaced connection's open transaction is gone.
EnsureChoices == {"alive"} \cup Engines

AfterEnsure(choice, eng, tx) ==
    IF choice = "alive" THEN [engine |-> eng, txn |-> tx]
    ELSE [engine |-> choice, txn |-> NoTxn]

\* the snapshot rows whose cursor.execute did not raise, in payload order
RECURSIVE InsertedRows(_, _, _)
InsertedRows(items, fails, i) ==
    IF i > Len(items) THEN <<>>
    ELSE (IF fails[i] THEN <<>> ELSE <<SnapshotRow(items[i])>>)
         \o InsertedRows(items, fails, i + 1)

\* The try block (lines 267-377): what was INSERTed, and the exception that
\* left it ("" when the commit went through).  A failing item is logged and
\* skipped; the tracking INSERT is tried with and then without
\* collection_duration, and raises when both raise.
TryBlock(data_list) ==
    {[error |-> "cursor", snap |-> <<>>, track |-> <<>>]}
    \cup
    (IF FilterRaises(data_list)
     THEN {[error |-> "AttributeError", snap |-> <<>>, track |-> <<>>]}
     ELSE UNION {
            LET rows == InsertedRows(filtered_data(data_list), fails, 1)
                trk == SuccessRow(data_list, Len(rows))
            IN  {[error |-> "tracking", snap |-> rows, track |-> <<>>],
                 [error |-> "commit", snap |-> rows, track |-> <<trk>>],
                 [error |-> "", snap |-> rows, track |-> <<trk>>]}
            : fails \in [1..Len(filtered_data(data_list)) -> BOOLEAN]})

\* The except block (lines 379-431): the error tracking row is not INSERTed
\* ("none": cursor() or both INSERTs raised), INSERTed but not committed, or
\* committed; every exception in it is swallowed.
ErrorRowFates == {"none", "uncommitted", "committed"}

InsertDataResult(data_list, c0, t, choice1, fate) ==
    LET pend == [snap |-> c0.txn.snap + Len(t.snap),
                 track |-> c0.txn.track + Len(t.track)]
        zero == [snap |-> 0, track |-> 0]
    IN  IF t.error = ""
        THEN [ret |-> TRUE, engine |-> c0.engine, txn |-> NoTxn,
              ncu_data |-> Mark(t.snap, "committed"),
              tracking |-> Mark(t.track, "committed"),
              persisted |-> pend]
        ELSE
          LET c1 == AfterEnsure(choice1, c0.engine, pend)
              own == IF choice1 # "alive" THEN "lost"
                     ELSE IF fate = "committed" THEN "committed" ELSE "pending"
              erow == IF fate = "none" THEN <<>>
                      ELSE Mark(<<ErrorRow(data_list, t.error)>>,
                                IF fate = "committed" THEN "committed" ELSE "pending")
          IN  [ret |-> FALSE, engine |-> c1.engine,
               txn |-> IF fate = "committed" THEN NoTxn
                       ELSE [snap |-> c1.txn.snap, track |-> c1.txn.track + Len(erow)],
               ncu_data |-> Mark(t.snap, own),
               tracking |-> Mark(t.track, own) \o erow,
               persisted |-> IF fate = "committed"
                             THEN [snap |-> c1.txn.snap, track |-> c1.txn.track + 1]
                             ELSE zero]

InsertDataOutcomes(data_list, eng, tx) ==
    {o \in
      {InsertDataResult(data_list, AfterEnsure(x[1], eng, tx), x[2], x[3], x[4]) :
          x \in EnsureChoices \X TryBlock(data_list) \X EnsureChoices \X ErrorRowFates}
     : o.txn.snap <= MaxPending /\ o.txn.track <= MaxPending}


(***************************************************************************)
(* The collection worker: NCUDataCollectionService.run_collection_loop,    *)
(* DataCollector.collect_data, login and logout.                           *)
(***************************************************************************)
\* A blocking wait: its length in seconds, and whether it is a wait on the
\* cancellation signal (stop_event.wait) or a plain time.sleep.
NoWait == [secs |-> 0, on_event |-> FALSE]
EventWait(n) == [secs |-> n, on_event |-> TRUE]
Sleep(n) == [secs |-> n, on_event |-> FALSE]

\* the worker never sees the event set
is_set_never(ev) == FALSE

\* self.stop_event.is_set()
is_set(ev) == ev

\* every wait reports the event as set
wait_returns_always(ev) == TRUE

\* the test of the wait's result is inverted
wait_returns_inverted(ev) == ~is_set(ev)

\* self.stop_event.wait(n): TRUE as soon as the event is set
wait_returns(ev) == is_set(ev)

PollInit ==
    /\ pc = "loop"
    /\ stop_event = FALSE
    /\ quiet \in BOOLEAN
    /\ wait_left = 0
    /\ consecutive_failures = 0
    /\ is_logged_in = FALSE
    /\ last_login_time = "None"
    /\ attempt = 0
    /\ depth = 0
    /\ success = "none"
    /\ engine \in Engines
    /\ txn = NoTxn
    /\ ncu_data = <<>>
    /\ data_collection_tracking = <<>>
    /\ payload = <<>>
    /\ persisted = NoTxn
    /\ outcome = "none"
    /\ failed_in_row = 0
    /\ cool_elapsed = 0
    /\ waited = NoWait

dbVars == <<engine, txn, ncu_data, data_collection_tracking, payload,
            persisted>>

\* success = self.db_manager.insert_data(data['data'], ...) with outcome o
InsertData(data_list, o) ==
    /\ payload' = data_list
    /\ engine' = o.engine
    /\ txn' = o.txn
    /\ ncu_data' = o.ncu_data
    /\ data_collection_tracking' = o.tracking
    /\ persisted' = o.persisted
sessionVars == <<is_logged_in, last_login_time>>

\* Wall-clock time passes during a wait: the quiet-hours window may open or
\* close, and a login may become more than one hour old.
TimePasses ==
    /\ quiet' \in BOOLEAN
    /\ last_login_time' \in
         (IF last_login_time = "recent" THEN {"recent", "over1h"}
          ELSE {last_login_time})

\* wait_seconds // 10 with wait_seconds = interval_minutes * 60
IntervalWaits == (interval_minutes * 60) \div quiet_poll_seconds

\* success = self.data_collector.collect_data()  (line 705): a cycle starts
BeginCycle ==
    /\ pc' = "collect"
    /\ depth' = 0
    /\ success' = "none"
    /\ outcome' = "running"

\* the top-level collect_data() returns `ret`
EndCycle(ret, how) ==
    /\ pc' = "after"
    /\ success' = (IF ret THEN "true" ELSE "false")
    /\ outcome' = how
    /\ failed_in_row' =
         (IF ret THEN 0 ELSE Min(failed_in_row + 1, max_consecutive_failures))

\* the reset of line 701 has been forgotten
AfterCooldownKept(n) == n

\* self.data_collector.consecutive_failures = 0  (line 701)
AfterCooldown(n) == 0

\* lines 679-705: the loop head, up to the call of collect_data()
LoopHead ==
    /\ pc = "loop"
    /\ waited' = NoWait
    /\ \/ /\ is_set(stop_event)
          /\ pc' = "stopped"
          /\ UNCHANGED <<quiet, wait_left, depth, success, outcome,
                         failed_in_row, cool_elapsed>>
       \/ /\ ~is_set(stop_event) /\ quiet
          /\ pc' = "quiet_wait"
          /\ wait_left' = IntervalWaits
          /\ UNCHANGED <<quiet, depth, success, outcome,
                         failed_in_row, cool_elapsed>>
       \/ /\ ~is_set(stop_event) /\ ~quiet
          /\ consecutive_failures >= max_consecutive_failures
          /\ pc' = "cooldown"
          /\ wait_left' = cooldown_waits
          /\ cool_elapsed' = 0
          /\ failed_in_row' = 0
          /\ UNCHANGED <<quiet, depth, success, outcome>>
       \/ /\ ~is_set(stop_event) /\ ~quiet
          /\ consecutive_failures < max_consecutive_failures
          /\ quiet' = quiet
          /\ BeginCycle
          /\ UNCHANGED <<wait_left, failed_in_row, cool_elapsed>>
    /\ UNCHANGED <<stop_event, consecutive_failures, sessionVars, attempt, dbVars,
                   ingestVars, serviceVars, walkVars, lockVars, batchVars, moreVars>>

\* lines 685-689: quiet hours, stop_event.wait(10) per iteration, then continue
QuietWait ==
    /\ pc = "quiet_wait"
    /\ \/ /\ wait_returns(stop_event)
          /\ pc' = "stopped"
          /\ waited' = NoWait
          /\ UNCHANGED <<quiet, last_login_time, wait_left>>
       \/ /\ ~wait_returns(stop_event)
          /\ TimePasses
          /\ waited' = EventWait(quiet_poll_seconds)
          /\ wait_left' = wait_left - 1
          /\ pc' = IF wait_left = 1 THEN "loop" ELSE "quiet_wait"
    /\ UNCHANGED <<stop_event, consecutive_failures, is_logged_in, attempt, depth,
                   success, dbVars, outcome, failed_in_row, cool_elapsed,
                   ingestVars, serviceVars, walkVars, lockVars, batchVars, moreVars>>

\* lines 697-705: the failure cool-down, stop_event.wait(30) per iteration;
\* after the last one the counter is reset and collect_data() is called
Cooldown ==
    /\ pc = "cooldown"
    /\ \/ /\ wait_returns(stop_event)
          /\ pc' = "stopped"
          /\ waited' = NoWait
          /\ UNCHANGED <<quiet, last_login_time, wait_left, cool_elapsed,
                         consecutive_failures, depth, success, outcome>>
       \/ /\ ~wait_returns(stop_event)
          /\ wait_left > 1
          /\ TimePasses
          /\ waited' = EventWait(cooldown_poll_seconds)
          /\ wait_left' = wait_left - 1
          /\ cool_elapsed' = cool_elapsed + cooldown_poll_seconds
          /\ pc' = "cooldown"
          /\ UNCHANGED <<consecutive_failures, depth, success, outcome>>
       \/ /\ ~wait_returns(stop_event)
          /\ wait_left = 1
          /\ TimePasses
          /\ waited' = EventWait(cooldown_poll_seconds)
          /\ wait_left' = 0
          /\ cool_elapsed' = cool_elapsed + cooldown_poll_seconds
          /\ consecutive_failures' = AfterCooldown(consecutive_failures)
          /\ BeginCycle
    /\ UNCHANGED <<stop_event, is_logged_in, attempt, dbVars, failed_in_row,
                   ingestVars, serviceVars, walkVars, lockVars, batchVars, moreVars>>

\* the age of the login is not looked at
NeedsLogin_no_expiry(logged, last) == ~logged

\* not self.is_logged_in or (self.last_login_time and now - it > 1 hour)
NeedsLogin(logged, last) == ~logged \/ last = "over1h"

\* a plausible slip: the two assignments at the end of the try block, where
\* an exception of the GET skips them
AfterLogout_in_try(logged, last, raised) ==
    IF raised THEN [is_logged_in |-> logged, last_login_time |-> last]
    ELSE [is_logged_in |-> FALSE, last_login_time |-> "None"]

\* lines 543-554: logout(); the GET of the logout URL is made when the
\* session is logged in and may raise (`raised`); the finally block clears
\* both fields whatever happened
AfterLogout(logged, last, raised) ==
    [is_logged_in |-> FALSE, last_login_time |-> "None"]

\* lines 561-570: re-login when not logged in or the login is over an hour old
CollectData ==
    /\ pc = "collect"
    /\ waited' = NoWait
    /\ IF NeedsLogin(is_logged_in, last_login_time)
       THEN /\ \E raised \in {r \in BOOLEAN : r => is_logged_in} :
                 LET s == AfterLogout(is_logged_in, last_login_time, raised)
                 IN  /\ is_logged_in' = s.is_logged_in
                     /\ last_login_time' = s.last_login_time
            /\ attempt' = 0
            /\ pc' = "login"
       ELSE /\ pc' = "fetch"
            /\ UNCHANGED <<sessionVars, attempt>>
    /\ cool_elapsed' = 0
    /\ UNCHANGED <<stop_event, quiet, wait_left, consecutive_failures, depth,
                   success, dbVars, outcome, failed_in_row, ingestVars, serviceVars,
                   walkVars, lockVars, batchVars, moreVars>>

\* what one login attempt can raise: all of it lands in `except Exception`
LoginErrors == {"page_status", "login_status", "timeout", "connection_error",
                "parse_error"}

\* every back-off lasts retry_delay
LoginBackoff_flat(k) == retry_delay

\* wait_time = COLLECTION_CONFIG['retry_delay'] * (attempt + 1), after the
\* k-th failed attempt
LoginBackoff(k) == retry_delay * k

\* the exhausted login is not counted
LoginExhausted_uncounted(n) == n

\* a plausible slip: login() counts the failure and collect_data() counts it
\* again before its return False
LoginExhausted_twice(n) == n + 2

\* self.consecutive_failures += 1  (line 539)
LoginExhausted(n) == n + 1

\* lines 461-541: one iteration of the retry loop of login()
Login ==
    /\ pc = "login"
    /\ \/ /\ is_logged_in' = TRUE                     \* status 200
          /\ last_login_time' = "recent"
          /\ consecutive_failures' = 0
          /\ pc' = "fetch"
          /\ attempt' = 0
          /\ waited' = NoWait
          /\ UNCHANGED <<quiet, success, outcome, failed_in_row>>
       \/ \E e \in LoginErrors :
            /\ attempt < max_retries - 1              \* failed: sleep, retry
            /\ attempt' = attempt + 1
            /\ waited' = Sleep(LoginBackoff(attempt + 1))
            /\ quiet' \in BOOLEAN
            /\ UNCHANGED <<pc, sessionVars, consecutive_failures, success,
                           outcome, failed_in_row>>
       \/ \E e \in LoginErrors :
            /\ attempt = max_retries - 1              \* all attempts failed
            /\ consecutive_failures' = LoginExhausted(consecutive_failures)
            /\ EndCycle(FALSE, "login_failed")
            /\ attempt' = 0
            /\ waited' = NoWait
            /\ UNCHANGED <<quiet, sessionVars>>
    /\ UNCHANGED <<stop_event, wait_left, depth, dbVars, cool_elapsed,
                   ingestVars, serviceVars, walkVars, lockVars, batchVars, moreVars>>

\* what the GET of the polling URL can do without returning a 200 response
FetchFailures == {"http_error", "timeout", "connection_error", "exception"}

\* The body of a 200 response: a JSON object whose `data` is a list, no JSON
\* at all, JSON that is no object (a number, null), an object without `data`,
\* an object whose `data` is no list.
Bodies == {"list", "not_json", "json_scalar", "no_data", "data_not_list"}

\* a plausible slip: data.get('data', []), a missing field read as no records
HasDataList_lenient(body) == body \in {"list", "no_data"}

\* 'data' in data and isinstance(data['data'], list)  (line 593); a body that
\* is no JSON or no object has raised before the test yields True
HasDataList(body) == body = "list"

\* data['data']
DataOf(body) == IF body = "list" THEN PayloadsUpTo(MaxPollItems) ELSE {<<>>}

\* how a cycle that received the 200 response `body` is remembered
HowEnded(body, ret) ==
    IF body # "list" THEN body ELSE IF ret THEN "stored" ELSE "store_failed"

\* lines 572-638: the data request and what follows it
Fetch ==
    /\ pc = "fetch"
    /\ waited' = NoWait
    /\ \/ \E body \in Bodies :                        \* 200
            IF HasDataList(body)
            THEN \E data_list \in DataOf(body) :
                   \E o \in InsertDataOutcomes(data_list, engine, txn) :
                     /\ InsertData(data_list, o)
                     /\ consecutive_failures' =
                          (IF o.ret THEN 0 ELSE consecutive_failures + 1)
                     /\ EndCycle(o.ret, HowEnded(body, o.ret))
                     /\ UNCHANGED <<is_logged_in, depth>>
            ELSE /\ consecutive_failures' = consecutive_failures + 1
                 /\ EndCycle(FALSE, HowEnded(body, FALSE))
                 /\ UNCHANGED <<is_logged_in, depth, dbVars>>
       \/ /\ depth < MaxDepth                         \* 401: re-login, retry
          /\ is_logged_in' = FALSE
          /\ depth' = depth + 1
          /\ pc' = "collect"
          /\ UNCHANGED <<consecutive_failures, success, outcome, failed_in_row,
                         dbVars>>
       \/ \E how \in FetchFailures :
            /\ consecutive_failures' = consecutive_failures + 1
            /\ EndCycle(FALSE, how)
            /\ UNCHANGED <<is_logged_in, depth, dbVars>>
    /\ UNCHANGED <<stop_event, quiet, wait_left, last_login_time, attempt,
                   cool_elapsed, ingestVars, serviceVars,
                   walkVars, lockVars, batchVars, moreVars>>

\* lines 706-722: the cycle is over, the interval wait begins
AfterCycle ==
    /\ pc = "after"
    /\ pc' = "interval_wait"
    /\ wait_left' = IntervalWaits
    /\ waited' = NoWait
    /\ ncu_data' = <<>>
    /\ data_collection_tracking' = <<>>
    /\ payload' = <<>>
    /\ persisted' = NoTxn
    /\ success' = "none"
    /\ outcome' = "none"
    /\ depth' = 0
    /\ UNCHANGED <<stop_event, quiet, consecutive_failures, sessionVars, attempt,
                   engine, txn, failed_in_row, cool_elapsed, ingestVars, serviceVars,
                   walkVars, lockVars, batchVars, moreVars>>

\* lines 727-737: an exception raised in the loop body outside collect_data
\* (which catches its own) is logged and the worker goes to the back-off
UnexpectedError ==
    /\ pc = "after"
    /\ pc' = "error_backoff"
    /\ waited' = NoWait
    /\ ncu_data' = <<>>
    /\ data_collection_tracking' = <<>>
    /\ payload' = <<>>
    /\ persisted' = NoTxn
    /\ success' = "none"
    /\ outcome' = "none"
    /\ depth' = 0
    /\ UNCHANGED <<stop_event, quiet, wait_left, consecutive_failures,
                   sessionVars, attempt, engine, txn, failed_in_row,
                   cool_elapsed, ingestVars, serviceVars,
                   walkVars, lockVars, batchVars, moreVars>>

\* lines 733-737: if not self.stop_event.wait(60): continue / else: break
ErrorBackoff ==
    /\ pc = "error_backoff"
    /\ \/ /\ wait_returns(stop_event)
          /\ pc' = "stopped"
          /\ waited' = NoWait
          /\ UNCHANGED <<quiet, last_login_time>>
       \/ /\ ~wait_returns(stop_event)
          /\ TimePasses
          /\ waited' = EventWait(error_backoff_seconds)
          /\ pc' = "loop"
    /\ UNCHANGED <<stop_event, wait_left, consecutive_failures, is_logged_in,
                   attempt, depth, success, dbVars, outcome, failed_in_row,
                   cool_elapsed, ingestVars, serviceVars,
                   walkVars, lockVars, batchVars, moreVars>>

\* lines 721-725: stop_event.wait(10) per iteration, then the loop head
IntervalWait ==
    /\ pc = "interval_wait"
    /\ \/ /\ wait_returns(stop_event)
          /\ pc' = "stopped"
          /\ waited' = NoWait
          /\ UNCHANGED <<quiet, last_login_time, wait_left>>
       \/ /\ ~wait_returns(stop_event)
          /\ TimePasses
          /\ waited' = EventWait(quiet_poll_seconds)
          /\ wait_left' = wait_left - 1
          /\ pc' = IF wait_left = 1 THEN "loop" ELSE "interval_wait"
    /\ UNCHANGED <<stop_event, consecutive_failures, is_logged_in, attempt, depth,
                   success, dbVars, outcome, failed_in_row, cool_elapsed,
                   ingestVars, serviceVars, walkVars, lockVars, batchVars, moreVars>>

\* NCUDataCollectionService.stop(): self.stop_event.set()
Stop ==
    /\ ~stop_event
    /\ stop_event' = TRUE
    /\ UNCHANGED <<pc, quiet, wait_left, consecutive_failures, sessionVars,
                   attempt, depth, success, dbVars, outcome, failed_in_row,
                   cool_elapsed, waited, ingestVars, serviceVars,
                   walkVars, lockVars, batchVars, moreVars>>


(***************************************************************************)
(* Backfill storage: DatabaseManager of src/request_cloud_api.py.          *)
(*                                                                         *)
(* A record is the tuple built by process_and_store_data_for_timeframe; it *)
(* is modelled by its first element, the upstream id, which is the PRIMARY *)
(* KEY of tcu_overview.  A table is the number of rows it holds per id;    *)
(* each engine has its own table.                                          *)
(***************************************************************************)
RecordIds == {1, 2}
RecordLists == UNION {[1..n -> RecordIds] : n \in 0..MaxRecs}

EmptyTable == [i \in RecordIds |-> 0]


StoredIds(tbl) == {i \in RecordIds : tbl[i] > 0}

\* a plausible slip: the table is created without its primary key
FirstDup_nokey(tbl, batch) == 0

\* id VARCHAR(255) NOT NULL PRIMARY KEY: the first position of `batch` whose
\* id is stored or repeats an earlier one of the batch; 0 when there is none
FirstDup(tbl, batch) ==
    LET dups == {k \in 1..Len(batch) :
                   \/ batch[k] \in StoredIds(tbl)
                   \/ \E j \in 1..(k - 1) : batch[j] = batch[k]}
    IN  IF dups = {} THEN 0 ELSE CHOOSE k \in dups : \A j \in dups : k <= j

\* a plausible slip: cursor.execute in place of executemany, which binds the
\* first record only
InsertRows_first(tbl, rows) ==
    [i \in RecordIds |-> tbl[i] + (IF rows # <<>> /\ rows[1] = i THEN 1 ELSE 0)]

\* INSERT INTO tcu_overview (id, ...) VALUES ...: one more row per record
InsertRows(tbl, rows) ==
    [i \in RecordIds |-> tbl[i] + Cardinality({k \in 1..Len(rows) : rows[k] = i})]

WithTable(db, tbl) ==
    [db EXCEPT !.tables = [db.tables EXCEPT ![db.backend] = tbl]]

\* cursor.executemany(insert_query, data_batch); connection.commit()
\* MySQL sends one multi-row INSERT (autocommit): all rows or none.  It fails
\* on a duplicate key; the packet may be refused (1153); the connection may be
\* lost (2013) before or after the server ran the statement; anything else.
\* SQLite runs the rows one by one and stops at the first duplicate key, the
\* rows before it staying on the connection.
ExecuteMany(db, batch) ==
    LET tbl == db.tables[db.backend]
        k == FirstDup(tbl, batch)
    IN  IF db.backend = "mysql"
        THEN {[err |-> "e1153", db |-> db],
              [err |-> "e2013", db |-> db],
              [err |-> "mysql_error", db |-> db]}
             \cup
             (IF k = 0
              THEN {[err |-> "", db |-> WithTable(db, InsertRows(tbl, batch))],
                    [err |-> "e2013", db |-> WithTable(db, InsertRows(tbl, batch))]}
              ELSE {})
        ELSE {[err |-> "exception", db |-> db]}
             \cup
             (IF k = 0
              THEN {[err |-> "", db |-> WithTable(db, InsertRows(tbl, batch))]}
              ELSE {[err |-> "exception",
                     db |-> WithTable(db, InsertRows(tbl, SubSeq(batch, 1, k - 1)))]})

\* What is remembered of the executemany calls of one insert_ncu_data:
\*   split  - a batch refused as too large was cut in two halves
\*   missed - a batch of several records refused as too large was not cut
\*   stale  - a submitted batch held an id that was stored at that moment
NoObs == [split |-> FALSE, missed |-> FALSE, stale |-> FALSE]

Observe(db, batch, err, split) ==
    [split |-> split,
     missed |-> err = "e1153" /\ Len(batch) > 1 /\ ~split,
     stale |-> \E i \in 1..Len(batch) :
                  batch[i] \in StoredIds(db.tables[db.backend])]

Both(a, b) ==
    [split |-> a.split \/ b.split, missed |-> a.missed \/ b.missed,
     stale |-> a.stale \/ b.stale]

\* if attempt < max_retries - 1  (line 198)
MaySplit(attempt_no) == attempt_no < batch_max_retries - 1

\* insert_ncu_data_batch(data_batch, project_name), from iteration
\* `attempt_no` of its retry loop on: the results it can return.  `raised`
\* says that the call did not return: create_connection(), called in the
\* handler of a lost connection (line 218), raises when MySQL refuses three
\* times and the SQLite fallback fails as well (line 55), and no handler of
\* insert_ncu_data_batch or insert_ncu_data stands around that call.
RECURSIVE BatchOutcomes(_, _, _)
BatchOutcomes(db, batch, attempt_no) ==
    UNION {
      LET more == attempt_no < batch_max_retries - 1
          ev(split) == Observe(db, batch, x.err, split)
          failed == {[ok |-> FALSE, db |-> x.db, events |-> ev(FALSE),
                      raised |-> FALSE]}
      IN  IF x.err = ""
          THEN {[ok |-> TRUE, db |-> x.db, events |-> ev(FALSE),
                 raised |-> FALSE]}
          ELSE IF x.err = "e1153"
          THEN IF MaySplit(attempt_no) /\ Len(batch) > 1
               THEN LET mid == Len(batch) \div 2
                    IN  UNION {
                          IF o1.raised
                          THEN {[o1 EXCEPT !.events = Both(ev(TRUE), o1.events)]}
                          ELSE
                          {[ok |-> o1.ok /\ o2.ok, db |-> o2.db,
                            events |-> Both(ev(TRUE), Both(o1.events, o2.events)),
                            raised |-> o2.raised]
                           : o2 \in BatchOutcomes(o1.db,
                                      SubSeq(batch, mid + 1, Len(batch)), 0)}
                          : o1 \in BatchOutcomes(x.db, SubSeq(batch, 1, mid), 0)}
               ELSE failed
          ELSE IF x.err = "e2013"
          THEN IF more
               THEN {[ok |-> FALSE, db |-> x.db, events |-> ev(FALSE),
                      raised |-> TRUE]}
                    \cup
                    UNION {
                      {[o EXCEPT !.events = Both(ev(FALSE), o.events)]
                       : o \in BatchOutcomes([x.db EXCEPT !.backend = e], batch,
                                             attempt_no + 1)}
                      : e \in Engines}
               ELSE failed
          ELSE IF more
               THEN {[o EXCEPT !.events = Both(ev(FALSE), o.events)]
                     : o \in BatchOutcomes(x.db, batch, attempt_no + 1)}
               ELSE failed
      : x \in ExecuteMany(db, batch)}

NoRun == [phase |-> "idle", data_list |-> <<>>, before |-> {},
          lookup |-> "none", events |-> NoObs, ret |-> FALSE,
          raised |-> FALSE, existing |-> {}, done |-> 0]

\* check_ids_exist(ids): the ids found by the SELECT, or set() when it raises
CheckIdsExist(db, ids) ==
    {[lookup |-> "ok", existing |-> ids \cap StoredIds(db.tables[db.backend])],
     [lookup |-> "failed", existing |-> {}]}

IsNew(existing, record) == record \notin existing

\* a plausible slip: the list is submitted as it came
NewData_unfiltered(data_list, existing) == data_list

\* new_data = [record for record in data_list if record[0] not in existing_ids]
NewData(data_list, existing) ==
    LET keep(r) == IsNew(existing, r) IN SelectSeq(data_list, keep)

\* lines 264-277: the batches new_data[i:i + batch_size], one after the other;
\* `done` counts the successful ones; a batch that raised ends the loop
RECURSIVE BatchLoop(_, _, _, _, _)
BatchLoop(db, new_data, i, done, events) ==
    IF i > Len(new_data)
    THEN {[db |-> db, done |-> done, events |-> events, raised |-> FALSE]}
    ELSE UNION {
           IF o.raised
           THEN {[db |-> o.db, done |-> done,
                  events |-> Both(events, o.events), raised |-> TRUE]}
           ELSE
           BatchLoop(o.db, new_data, i + batch_size,
                     IF o.ok THEN done + 1 ELSE done, Both(events, o.events))
           : o \in BatchOutcomes(db,
                     SubSeq(new_data, i, Min(i + batch_size - 1, Len(new_data))),
                     0)}

\* insert_ncu_data(data_list, project_name): the results it can return
InsertNcuDataOutcomes(db, data_list) ==
    IF data_list = <<>>
    THEN {[db |-> db, lookup |-> "none", events |-> NoObs, ret |-> TRUE,
           raised |-> FALSE, existing |-> {}, done |-> 0]}
    ELSE UNION {
           LET new_data == NewData(data_list, c.existing)
           IN  IF new_data = <<>>
               THEN {[db |-> db, lookup |-> c.lookup, events |-> NoObs,
                      ret |-> TRUE, raised |-> FALSE,
                      existing |-> c.existing, done |-> 0]}
               ELSE {[db |-> b.db, lookup |-> c.lookup, events |-> b.events,
                      ret |-> ~b.raised /\ b.done > 0, raised |-> b.raised,
                      existing |-> c.existing, done |-> b.done]
                     : b \in BatchLoop(db, new_data, 1, 0, NoObs)}
           : c \in CheckIdsExist(db, {data_list[i] : i \in 1..Len(data_list)})}

\* db_manager.insert_ncu_data(processed_data, project_name)  (line 461)
InsertNcuData ==
    /\ run.phase = "idle"
    /\ \E data_list \in RecordLists :
         \E o \in InsertNcuDataOutcomes(
                    [backend |-> backend, tables |-> tcu_overview], data_list) :
           /\ backend' = o.db.backend
           /\ tcu_overview' = o.db.tables
           /\ run' = [phase |-> "done", data_list |-> data_list,
                      before |-> StoredIds(tcu_overview[backend]),
                      lookup |-> o.lookup, events |-> o.events, ret |-> o.ret,
                      raised |-> o.raised, existing |-> o.existing,
                      done |-> o.done]
    /\ UNCHANGED <<pollVars, serviceVars, walkVars, lockVars, batchVars, moreVars>>

\* the walker moves on to the next project or window
NextIngest ==
    /\ run.phase = "done"
    /\ run' = NoRun
    /\ UNCHANGED <<backend, tcu_overview, pollVars, serviceVars,
                   walkVars, lockVars, batchVars, moreVars>>

IngestNext ==
    \/ InsertNcuData
    \/ NextIngest


IngestIdle ==
    /\ backend = "mysql"
    /\ tcu_overview = [e \in Engines |-> EmptyTable]
    /\ run = NoRun

\* NCUDataCollectionService.__init__ (lines 641-646)
ServiceIdle ==
    /\ is_running = FALSE
    /\ collection_thread = 0
    /\ thread = [w \in 1..MaxStarts |-> "unborn"]
    /\ caller = "idle"
    /\ returned = "none"

\* one window of the walker, timedelta(hours=1), in ticks of the clock
Hour == 2

\* main() has not been started
WalkIdle ==
    /\ clock = 0
    /\ current_now = 0
    /\ current_start = 0
    /\ walker = "off"
    /\ projects = <<>>
    /\ idx = 0
    /\ results = <<>>
    /\ pauses = <<>>
    /\ processed_windows = <<>>
    /\ project_data = <<>>
    /\ processed_data = <<>>

\* the threads that run collect_data on the one DataCollector, and with it
\* insert_data on its one DatabaseManager: every thread start() created
Writers == 1..MaxStarts

Outside == [at |-> "idle", path |-> "try"]

\* no thread is inside insert_data
LockIdle ==
    /\ connection_lock = 0
    /\ writer = [t \in Writers |-> Outside]

\* insert_ncu_data is not running
BatchIdle ==
    /\ total_batches = 0
    /\ batch_num = 0
    /\ successful_batches = 0
    /\ tries = <<>>
    /\ batches = <<>>
    /\ loader = "idle"

\* insert_ncu_data has sliced nothing
PartIdle ==
    /\ new_records = <<>>
    /\ offset = 0
    /\ taken = <<>>

\* login() is not running
TokenIdle ==
    /\ login_at = "idle"
    /\ login_page = "None"
    /\ csrf_token = "None"
    /\ fetched = <<>>
    /\ posted = <<>>

Init ==
    /\ PollInit
    /\ IngestIdle
    /\ ServiceIdle
    /\ LockIdle
    /\ BatchIdle
    /\ PartIdle
    /\ TokenIdle
    /\ WalkIdle


(***************************************************************************)
(* A poll payload stored on its own: insert_data called with any payload,  *)
(* on any state the connection can be in (SpecStore).                      *)
(***************************************************************************)
PollIdle(at) ==
    /\ pc = at
    /\ stop_event = FALSE
    /\ quiet = FALSE
    /\ wait_left = 0
    /\ consecutive_failures = 0
    /\ is_logged_in = TRUE
    /\ last_login_time = "recent"
    /\ attempt = 0
    /\ depth = 0
    /\ success = "none"
    /\ txn = NoTxn
    /\ ncu_data = <<>>
    /\ data_collection_tracking = <<>>
    /\ payload = <<>>
    /\ persisted = NoTxn
    /\ outcome = "none"
    /\ failed_in_row = 0
    /\ cool_elapsed = 0
    /\ waited = NoWait

StoreInit ==
    /\ PollIdle("store")
    /\ engine \in Engines
    /\ IngestIdle
    /\ ServiceIdle
    /\ LockIdle
    /\ BatchIdle
    /\ PartIdle
    /\ TokenIdle
    /\ WalkIdle

schedVars == <<stop_event, quiet, wait_left, consecutive_failures, sessionVars,
               attempt, depth, outcome, failed_in_row, cool_elapsed, waited>>

\* lines 263-431: one call of insert_data
StorePoll ==
    /\ pc = "store"
    /\ \E data_list \in PayloadsUpTo(MaxItems) :
         \E o \in InsertDataOutcomes(data_list, engine, txn) :
           /\ InsertData(data_list, o)
           /\ success' = (IF o.ret THEN "true" ELSE "false")
    /\ pc' = "stored"
    /\ UNCHANGED <<schedVars, ingestVars, serviceVars,
                   walkVars, lockVars, batchVars, moreVars>>

\* the next poll begins
StoreNext ==
    /\ pc = "stored"
    /\ pc' = "store"
    /\ success' = "none"
    /\ ncu_data' = <<>>
    /\ data_collection_tracking' = <<>>
    /\ payload' = <<>>
    /\ persisted' = NoTxn
    /\ UNCHANGED <<engine, txn, schedVars, ingestVars, serviceVars,
                   walkVars, lockVars, batchVars, moreVars>>

StoreNextStep ==
    \/ StorePoll
    \/ StoreNext

SpecStore == StoreInit /\ [][StoreNextStep]_vars

Next ==
    \/ LoopHead
    \/ QuietWait
    \/ Cooldown
    \/ CollectData
    \/ Login
    \/ Fetch
    \/ AfterCycle
    \/ UnexpectedError
    \/ ErrorBackoff
    \/ IntervalWait
    \/ Stop

Spec == Init /\ [][Next]_vars

(***************************************************************************)
(* The scheduler with its scheduling assumptions (SpecLive).               *)
(*                                                                         *)
(* The loop reads of a stored payload only what insert_data returned, so   *)
(* here the GET and the storage call return their result and the rows are  *)
(* not recorded.  The worker thread keeps running: every call it makes     *)
(* returns and every wait ends (weak fairness of its steps), and the       *)
(* quiet-hours window, which closes every evening, is found closed by one  *)
(* of the loop's re-checks (strong fairness of that step).  stop() is      *)
(* never forced to happen.                                                 *)
(***************************************************************************)
\* lines 572-638: the data request and what it returns to the loop
FetchReturns ==
    /\ pc = "fetch"
    /\ waited' = NoWait
    /\ \/ \E body \in Bodies :                        \* 200
            IF HasDataList(body)
            THEN \E data_list \in DataOf(body) :
                   \E o \in InsertDataOutcomes(data_list, engine, txn) :
                     /\ consecutive_failures' =
                          (IF o.ret THEN 0 ELSE consecutive_failures + 1)
                     /\ EndCycle(o.ret, HowEnded(body, o.ret))
                     /\ UNCHANGED <<is_logged_in, depth>>
            ELSE /\ consecutive_failures' = consecutive_failures + 1
                 /\ EndCycle(FALSE, HowEnded(body, FALSE))
                 /\ UNCHANGED <<is_logged_in, depth>>
       \/ /\ depth < MaxDepth                         \* 401: re-login, retry
          /\ is_logged_in' = FALSE
          /\ depth' = depth + 1
          /\ pc' = "collect"
          /\ UNCHANGED <<consecutive_failures, success, outcome, failed_in_row>>
       \/ \E how \in FetchFailures :
            /\ consecutive_failures' = consecutive_failures + 1
            /\ EndCycle(FALSE, how)
            /\ UNCHANGED <<is_logged_in, depth>>
    /\ UNCHANGED <<stop_event, quiet, wait_left, last_login_time, attempt,
                   cool_elapsed, dbVars, ingestVars, serviceVars,
                   walkVars, lockVars, batchVars, moreVars>>

\* the steps of the collection thread (target=self.run_collection_loop)
Worker ==
    \/ LoopHead
    \/ QuietWait
    \/ Cooldown
    \/ CollectData
    \/ Login
    \/ FetchReturns
    \/ AfterCycle
    \/ UnexpectedError
    \/ ErrorBackoff
    \/ IntervalWait

\* the last wait of a quiet-hours sleep ends after the window has closed
QuietEnds == QuietWait /\ pc' = "loop" /\ ~quiet'

LiveNext ==
    \/ LoopHead
    \/ QuietWait
    \/ Cooldown
    \/ CollectData
    \/ Login
    \/ FetchReturns
    \/ AfterCycle
    \/ UnexpectedError
    \/ ErrorBackoff
    \/ IntervalWait
    \/ Stop

SpecLive ==
    /\ Init
    /\ [][LiveNext]_vars
    /\ WF_vars(Worker)
    /\ SF_vars(QuietEnds)

(***************************************************************************)
(* NCUDataCollectionService.start and stop (SpecService).                  *)
(*                                                                         *)
(* The main thread calls start() and stop() in any order; stop() is three  *)
(* steps (set the event, join with a timeout, logout and return) between   *)
(* which the collection threads run.  Every thread start() has created is  *)
(* followed through run_collection_loop by its position alone: the calls   *)
(* it is inside of, and the waits on the one shared stop_event.            *)
(***************************************************************************)
Threads == 1..MaxStarts

\* inside collect_data(): the session test, login(), the GET, insert_data
InCycle == {"collect", "login", "backoff", "fetch", "store"}

\* calls that can outlast join(timeout=30): the login requests (timeout 60),
\* time.sleep(30 or 60), the data GET (timeout 30) and the storage calls
Blocking == {"login", "backoff", "fetch", "store"}

\* threading.Thread.is_alive()
is_alive(w) == thread[w] \notin {"unborn", "finished"}

pollRest == <<pc, quiet, wait_left, consecutive_failures, sessionVars, attempt,
              depth, success, dbVars, outcome, failed_in_row, cool_elapsed,
              waited>>

\* lines 741-769: start()
StartService ==
    /\ caller = "idle"
    /\ \/ /\ is_running                              \* already running
          /\ returned' = "start_refused"
          /\ UNCHANGED <<stop_event, is_running, collection_thread, thread>>
       \/ /\ ~is_running                             \* initialize() failed
          /\ returned' = "start_failed"
          /\ UNCHANGED <<stop_event, is_running, collection_thread, thread>>
       \/ /\ ~is_running
          /\ \E w \in Threads :
               /\ thread[w] = "unborn"
               /\ \A v \in 1..(w - 1) : thread[v] # "unborn"
               /\ is_running' = TRUE
               /\ stop_event' = FALSE                 \* self.stop_event.clear()
               /\ collection_thread' = w
               /\ thread' = [thread EXCEPT ![w] = "loop"]
          /\ returned' = "start_ok"
    /\ UNCHANGED <<caller, pollRest, ingestVars, walkVars, lockVars, batchVars, moreVars>>

\* lines 771-781: stop() up to the join
StopService ==
    /\ caller = "idle"
    /\ \/ /\ ~is_running                             \* not running: return
          /\ returned' = "stop_noop"
          /\ UNCHANGED <<stop_event, caller>>
       \/ /\ is_running
          /\ stop_event' = TRUE                       \* self.stop_event.set()
          /\ caller' = IF collection_thread # 0 /\ is_alive(collection_thread)
                       THEN "join" ELSE "logout"
          /\ returned' = "none"
    /\ UNCHANGED <<is_running, collection_thread, thread, pollRest, ingestVars,
                   walkVars, lockVars, batchVars, moreVars>>

\* line 781: self.collection_thread.join(timeout=30) returns, because the
\* thread has ended or because 30 seconds have passed
JoinThread ==
    /\ caller = "join"
    /\ \/ ~is_alive(collection_thread)
       \/ thread[collection_thread] \in Blocking
    /\ caller' = "logout"
    /\ UNCHANGED <<stop_event, is_running, collection_thread, thread, returned,
                   pollRest, ingestVars, walkVars, lockVars, batchVars, moreVars>>

\* lines 783-787: self.data_collector.logout(); self.is_running = False
LogoutAndReturn ==
    /\ caller = "logout"
    /\ is_running' = FALSE
    /\ caller' = "idle"
    /\ returned' = "stop_done"
    /\ UNCHANGED <<stop_event, collection_thread, thread, pollRest, ingestVars,
                   walkVars, lockVars, batchVars, moreVars>>

\* lines 676-739 and 556-638, for the thread w: where it goes next
ThreadNext(w) ==
    CASE thread[w] = "loop" ->
           IF is_set(stop_event) THEN {"finished"} ELSE {"wait", "collect"}
      [] thread[w] = "collect" -> {"login", "fetch"}
      [] thread[w] = "login" -> {"fetch", "backoff", "wait"}
      [] thread[w] = "backoff" -> {"login"}
      [] thread[w] = "fetch" -> {"store", "collect", "wait"}
      [] thread[w] = "store" -> {"wait"}
      [] thread[w] = "wait" ->
           IF wait_returns(stop_event) THEN {"finished"} ELSE {"loop"}
      [] OTHER -> {}

\* one step of one collection thread
ThreadStep ==
    /\ \E w \in Threads :
         \E at \in ThreadNext(w) :
           thread' = [thread EXCEPT ![w] = at]
    /\ UNCHANGED <<stop_event, is_running, collection_thread, caller, returned,
                   pollRest, ingestVars, walkVars, lockVars, batchVars, moreVars>>

ServiceInit ==
    /\ PollIdle("loop")
    /\ engine = "mysql"
    /\ IngestIdle
    /\ ServiceIdle
    /\ LockIdle
    /\ BatchIdle
    /\ PartIdle
    /\ TokenIdle
    /\ WalkIdle

ServiceNext ==
    \/ StartService
    \/ StopService
    \/ JoinThread
    \/ LogoutAndReturn
    \/ ThreadStep

SpecService == ServiceInit /\ [][ServiceNext]_vars

(***************************************************************************)
(* The backfill walker: main() and process_and_store_data_for_timeframe of *)
(* src/request_cloud_api.py (SpecWalker, SpecProject).                     *)
(*                                                                         *)
(* Times are ticks of the wall clock counted from START_DATE; a window is  *)
(* Hour ticks long.  A project of the master list has a db_name and a      *)
(* project_name, or lacks one of them.  A record of the data endpoint is   *)
(* known by its status_name and by how its transformation goes: plain,     *)
(* with an unparseable created_at, or raising (no object, a device_id that *)
(* is no string).  insert_ncu_data is known here by what it returns; the   *)
(* storage behind it is SpecIngest.                                        *)
(***************************************************************************)
Projects == [db_name : BOOLEAN, project_name : BOOLEAN]
ProjectLists == UNION {[1..n -> Projects] : n \in 1..MaxProjects}

Records == [status_name : {"ok", "alarm", NoKey},
            form : {"plain", "bad_date", "raises"}]
FetchedLists == UNION {[1..n -> Records] : n \in 1..MaxFetched}

\* if not project_db or not project_name: continue  (line 403), negated
HasNameAndKey(project) == project.db_name /\ project.project_name

\* a plausible slip: the status filter is missing
Retained_any(record) == TRUE

\* if record.get('status_name') != 'ok'  (line 424)
Retained(record) == record.status_name # "ok"

\* lines 430-439: the parsed created_at, or datetime.now() as the fallback
created_at(record) == IF record.form = "bad_date" THEN "now" ELSE "parsed"

\* lines 441-453: the tuple appended to processed_data
ProcessedRecord(record) ==
    [status_name |-> record.status_name, created_at |-> created_at(record)]

\* lines 421-457: a record that raises is logged and skipped (line 455)
RECURSIVE Process(_)
Process(recs) ==
    IF recs = <<>> THEN <<>>
    ELSE (IF Head(recs).form # "raises" /\ Retained(Head(recs))
          THEN <<ProcessedRecord(Head(recs))>> ELSE <<>>)
         \o Process(Tail(recs))

\* lines 400-477: the loop body for one project: what was fetched, what was
\* handed to insert_ncu_data, and how the project ended
ProjectOutcomes(project) ==
    IF ~HasNameAndKey(project)
    THEN {[tag |-> "skipped", project_data |-> <<>>, processed_data |-> <<>>]}
    ELSE {[tag |-> "no_data", project_data |-> <<>>, processed_data |-> <<>>],
          [tag |-> "error", project_data |-> <<>>, processed_data |-> <<>>]}
         \cup
         UNION {
           IF Process(d) = <<>>
           THEN {[tag |-> "no_valid_records", project_data |-> d,
                  processed_data |-> <<>>]}
           ELSE {[tag |-> t, project_data |-> d, processed_data |-> Process(d)]
                 : t \in {"stored", "insert_failed", "error"}}
           : d \in FetchedLists}

\* time.sleep(2)  (line 472)
project_delay == 2

\* the delay of line 472 is the last statement of the try block: it is
\* reached when the iteration neither left through a `continue` (lines 405
\* and 417) nor through the handler of line 474
SleepAfter(tag) ==
    IF tag \in {"no_valid_records", "stored", "insert_failed"}
    THEN project_delay
    ELSE 0

\* how one iteration of the project loop can end, the records left aside:
\* skipped (lines 403-405), nothing fetched (415-417), an exception caught
\* at line 474, no record left to insert (468-469), insert_ncu_data
\* returned True (463-465) or False (466-467)
ProjectTags(project) ==
    IF ~HasNameAndKey(project)
    THEN {"skipped"}
    ELSE {"no_data", "error", "no_valid_records", "stored", "insert_failed"}

\* a plausible slip: a project's exception ends the window
AfterProject_abort(tag, i, n) == IF tag = "error" THEN n + 1 ELSE i + 1

\* `continue` (lines 405, 417, 477) or the end of the loop body: next project
AfterProject(tag, i, n) == i + 1

\* a plausible slip: a window ending now is taken for past
EndInPast_inclusive(end, now) == end <= now

\* if current_end >= current_now: wait  (line 536), negated
EndInPast(end, now) == end < now

\* a plausible slip: the cursor is moved past the window's end
NextStart_skip(start, end) == end + 1

\* a plausible slip: the cursor is left where it was
NextStart_stay(start, end) == start

\* current_start = current_end  (line 555)
NextStart(start, end) == end

\* time passes while the walker sleeps or works
Later(c) == {c} \cup (IF c < MaxClock THEN {c + 1} ELSE {})

walkRest == <<pollVars, ingestVars, serviceVars, lockVars, batchVars, moreVars>>

\* lines 528-545: the top of the loop
WalkerCheck ==
    /\ walker = "loop"
    /\ current_now' = clock
    /\ IF EndInPast(current_start + Hour, clock)
       THEN /\ walker' = "window"
            /\ idx' = 1
            /\ results' = <<>>
            /\ pauses' = <<>>
       ELSE /\ walker' = "sleep"
            /\ UNCHANGED <<idx, results, pauses>>
    /\ UNCHANGED <<clock, current_start, projects, processed_windows,
                   project_data, processed_data, walkRest>>

\* lines 540-541: time.sleep(600); continue
WalkerSleep ==
    /\ walker = "sleep"
    /\ walker' = "loop"
    /\ clock' \in Later(clock)
    /\ UNCHANGED <<current_now, current_start, projects, idx, results, pauses,
                   processed_windows, project_data, processed_data, walkRest>>

\* lines 399-477: one project of the window
ProcessProject ==
    /\ walker = "window"
    /\ idx <= Len(projects)
    /\ \E tag \in ProjectTags(projects[idx]) :
         /\ results' = Append(results, tag)
         /\ pauses' = Append(pauses, SleepAfter(tag))
         /\ idx' = AfterProject(tag, idx, Len(projects))
    /\ clock' \in Later(clock)
    /\ UNCHANGED <<current_now, current_start, walker, projects,
                   processed_windows, project_data, processed_data, walkRest>>

\* lines 479-563: the window is over, the cursor moves, time.sleep(300)
WindowDone ==
    /\ walker = "window"
    /\ idx > Len(projects)
    /\ current_start' = NextStart(current_start, current_start + Hour)
    /\ processed_windows' = Append(processed_windows, current_start)
    /\ walker' = "break"
    /\ UNCHANGED <<clock, current_now, projects, idx, results, pauses,
                   project_data, processed_data, walkRest>>

\* line 563: the break between two windows is over
WalkerBreak ==
    /\ walker = "break"
    /\ walker' = "loop"
    /\ clock' \in Later(clock)
    /\ UNCHANGED <<current_now, current_start, projects, idx, results, pauses,
                   processed_windows, project_data, processed_data, walkRest>>

\* lines 496-526: the projects are fetched once, the cursor is START_DATE
WalkerInit ==
    /\ PollIdle("loop")
    /\ engine = "mysql"
    /\ IngestIdle
    /\ ServiceIdle
    /\ LockIdle
    /\ BatchIdle
    /\ PartIdle
    /\ TokenIdle
    /\ clock \in 0..MaxClock
    /\ current_now = 0
    /\ current_start = 0
    /\ walker = "loop"
    /\ projects \in ProjectLists
    /\ idx = 0
    /\ results = <<>>
    /\ pauses = <<>>
    /\ processed_windows = <<>>
    /\ project_data = <<>>
    /\ processed_data = <<>>

WalkerNext ==
    \/ WalkerCheck
    \/ WalkerSleep
    \/ ProcessProject
    \/ WindowDone
    \/ WalkerBreak

SpecWalker == WalkerInit /\ [][WalkerNext]_vars

\* The walker under its scheduling assumptions: every fetch returns (its
\* requests time out after 45 s and are tried three times) and so does every
\* insert (its retries are bounded), so the project loop of a window and the
\* return of process_and_store_data_for_timeframe are not put off for ever.
SpecWalkerLive ==
    /\ WalkerInit
    /\ [][WalkerNext]_vars
    /\ WF_vars(ProcessProject)
    /\ WF_vars(WindowDone)

\* lines 411-477 for one project, the records it fetched and handed over kept
FetchAndStore ==
    /\ walker = "project"
    /\ \E o \in ProjectOutcomes(projects[1]) :
         /\ project_data' = o.project_data
         /\ processed_data' = o.processed_data
         /\ results' = <<o.tag>>
         /\ pauses' = <<SleepAfter(o.tag)>>
    /\ walker' = "projected"
    /\ UNCHANGED <<clock, current_now, current_start, projects, idx,
                   processed_windows, walkRest>>

\* the loop goes to its next project
NextProject ==
    /\ walker = "projected"
    /\ walker' = "project"
    /\ projects' \in [1..1 -> Projects]
    /\ results' = <<>>
    /\ pauses' = <<>>
    /\ project_data' = <<>>
    /\ processed_data' = <<>>
    /\ UNCHANGED <<clock, current_now, current_start, idx, processed_windows,
                   walkRest>>

ProjectInit ==
    /\ PollIdle("loop")
    /\ engine = "mysql"
    /\ IngestIdle
    /\ ServiceIdle
    /\ LockIdle
    /\ BatchIdle
    /\ PartIdle
    /\ TokenIdle
    /\ clock = Hour + 1
    /\ current_now = Hour + 1
    /\ current_start = 0
    /\ walker = "project"
    /\ projects \in [1..1 -> Projects]
    /\ idx = 1
    /\ results = <<>>
    /\ pauses = <<>>
    /\ processed_windows = <<>>
    /\ project_data = <<>>
    /\ processed_data = <<>>

ProjectNext ==
    \/ FetchAndStore
    \/ NextProject

SpecProject == ProjectInit /\ [][ProjectNext]_vars

(***************************************************************************)
(* The connection lock of src/data_collector.py.  A thread is followed     *)
(* through one insert_data call: ensure_connection (lines 236-261), the    *)
(* locked block of the try (lines 270-377) and, when that raised, the same *)
(* two steps of the except block (lines 385-426).  `path` says which of    *)
(* the two the thread is in.                                               *)
(***************************************************************************)
lockRest == <<pollVars, ingestVars, serviceVars, walkVars, batchVars, moreVars>>

Moves(t, at, path) == [writer EXCEPT ![t] = [at |-> at, path |-> path]]

\* with self.connection_lock: __exit__ releases what the thread holds
Released(t) == IF connection_lock = t THEN 0 ELSE connection_lock

\* line 595: collect_data hands a payload to insert_data, which calls
\* ensure_connection first (line 268)
CallInsertData ==
    \E t \in Writers :
        /\ writer[t].at = "idle"
        /\ writer' = Moves(t, "ensure", "try")
        /\ UNCHANGED <<connection_lock, lockRest>>

\* line 239: with self.connection_lock, in ensure_connection
LockForCheck ==
    \E t \in Writers :
        /\ writer[t].at = "ensure"
        /\ connection_lock = 0
        /\ connection_lock' = t
        /\ writer' = Moves(t, "check", writer[t].path)
        /\ UNCHANGED lockRest

\* lines 240-257: the connection answers, or it is replaced inside the lock
\* (create_connection at lines 244 and 257), or the check raises and the
\* with block is left for the handler of line 259
HealthCheck ==
    \E t \in Writers :
        /\ writer[t].at = "check"
        /\ \/ /\ connection_lock' = 0
              /\ writer' = Moves(t, "enter", writer[t].path)
           \/ /\ connection_lock' = connection_lock
              /\ writer' = Moves(t, "create_connection", writer[t].path)
           \/ /\ connection_lock' = 0
              /\ writer' = Moves(t, "handler", writer[t].path)
        /\ UNCHANGED lockRest

\* lines 259-261: except Exception: logger.error(...); self.create_connection()
CheckFailed ==
    \E t \in Writers :
        /\ writer[t].at = "handler"
        /\ writer' = Moves(t, "create_connection", writer[t].path)
        /\ UNCHANGED <<connection_lock, lockRest>>

\* create_connection returns: self.connection is a new handle
Reconnected ==
    \E t \in Writers :
        /\ writer[t].at = "create_connection"
        /\ connection_lock' = Released(t)
        /\ writer' = Moves(t, "enter", writer[t].path)
        /\ UNCHANGED lockRest

\* lines 270 and 386: with self.connection_lock, in insert_data
LockForStatements ==
    \E t \in Writers :
        /\ writer[t].at = "enter"
        /\ connection_lock = 0
        /\ connection_lock' = t
        /\ writer' = Moves(t, "statements", writer[t].path)
        /\ UNCHANGED lockRest

\* lines 271-373 and 387-424: cursor() and the INSERTs
Statements ==
    \E t \in Writers :
        /\ writer[t].at = "statements"
        /\ writer' = Moves(t, "commit", writer[t].path)
        /\ UNCHANGED <<connection_lock, lockRest>>

\* lines 375-377 and 426: connection.commit(), the block is left, return
Committed ==
    \E t \in Writers :
        /\ writer[t].at = "commit"
        /\ connection_lock' = 0
        /\ writer' = Moves(t, "idle", "try")
        /\ UNCHANGED lockRest

\* a statement or the commit raises: the block is left; from the try the
\* except block of line 379 starts over with ensure_connection (line 385),
\* from the except block the error is logged and False is returned (428-431)
StatementRaised ==
    \E t \in Writers :
        /\ writer[t].at \in {"statements", "commit"}
        /\ connection_lock' = 0
        /\ writer' = IF writer[t].path = "try"
                     THEN Moves(t, "ensure", "except")
                     ELSE Moves(t, "idle", "try")
        /\ UNCHANGED lockRest

LockInit ==
    /\ PollIdle("loop")
    /\ engine = "mysql"
    /\ IngestIdle
    /\ ServiceIdle
    /\ WalkIdle
    /\ LockIdle
    /\ BatchIdle
    /\ PartIdle
    /\ TokenIdle

LockNext ==
    \/ CallInsertData
    \/ LockForCheck
    \/ HealthCheck
    \/ CheckFailed
    \/ Reconnected
    \/ LockForStatements
    \/ Statements
    \/ Committed
    \/ StatementRaised

SpecLock == LockInit /\ [][LockNext]_vars

(***************************************************************************)
(* insert_ncu_data (lines 260-282) and insert_ncu_data_batch (lines        *)
(* 162-237) of src/request_cloud_api.py, one executemany at a time.  What  *)
(* the statements do to the table is SpecIngest's matter; here only the    *)
(* error of each attempt and what the handler did with it are kept.        *)
(***************************************************************************)
batchRest == <<pollVars, ingestVars, serviceVars, walkVars, lockVars,
               moreVars>>

\* what cursor.executemany / connection.commit of one attempt can raise
BatchErrors == {"", "e1153", "e2013", "mysql_error", "exception"}

\* what create_connection() of line 218 can do: connect to MySQL, fall back
\* to SQLite, or raise out of _fallback_to_sqlite (line 55)
Reconnects == {"mysql", "sqlite", "raised"}

\* if attempt < max_retries - 1  (lines 214, 224 and 231)
MayRetry(attempt_no) == attempt_no < batch_max_retries - 1

\* lines 260-262: total_batches is computed, the loop starts
StartBatches ==
    /\ loader = "idle"
    /\ total_batches' \in 1..MaxBatches
    /\ batch_num' = 1
    /\ successful_batches' = 0
    /\ tries' = <<>>
    /\ batches' = <<>>
    /\ loader' = "batch"
    /\ UNCHANGED batchRest

\* insert_ncu_data_batch returned `ok` for the batch: lines 270-277
BatchReturned(ok, attempts) ==
    /\ batches' = Append(batches, [tries |-> attempts, ok |-> ok])
    /\ successful_batches' = successful_batches + (IF ok THEN 1 ELSE 0)
    /\ tries' = <<>>
    /\ batch_num' = batch_num + 1
    /\ loader' = IF batch_num < total_batches THEN "batch" ELSE "returned"

BatchGoesOn(attempts) ==
    /\ tries' = attempts
    /\ UNCHANGED <<batches, successful_batches, batch_num, loader>>

\* lines 166-235: one iteration of for attempt in range(max_retries)
AttemptBatch ==
    /\ loader = "batch"
    /\ LET attempt_no == Len(tries)
           with(err, rc) == Append(tries, [err |-> err, reconnect |-> rc])
       IN  \E err \in BatchErrors :
             IF err = ""
             THEN BatchReturned(TRUE, with(err, "none"))
             ELSE IF err = "e1153"
             THEN IF MaySplit(attempt_no)
                  THEN \E ok \in BOOLEAN : BatchReturned(ok, with(err, "none"))
                  ELSE BatchReturned(FALSE, with(err, "none"))
             ELSE IF err = "e2013"
             THEN IF MayRetry(attempt_no)
                  THEN \E rc \in Reconnects :
                         IF rc = "raised"
                         THEN /\ tries' = with(err, rc)
                              /\ loader' = "raised"
                              /\ UNCHANGED <<batches, successful_batches,
                                             batch_num>>
                         ELSE BatchGoesOn(with(err, rc))
                  ELSE BatchReturned(FALSE, with(err, "none"))
             ELSE IF MayRetry(attempt_no)
                  THEN BatchGoesOn(with(err, "none"))
                  ELSE BatchReturned(FALSE, with(err, "none"))
    /\ UNCHANGED <<total_batches, batchRest>>

\* insert_ncu_data is left, by its return (line 282) or by the exception
LeaveInsert ==
    /\ loader \in {"returned", "raised"}
    /\ total_batches' = 0
    /\ batch_num' = 0
    /\ successful_batches' = 0
    /\ tries' = <<>>
    /\ batches' = <<>>
    /\ loader' = "idle"
    /\ UNCHANGED batchRest

BatchesInit ==
    /\ PollIdle("loop")
    /\ engine = "mysql"
    /\ IngestIdle
    /\ ServiceIdle
    /\ WalkIdle
    /\ LockIdle
    /\ BatchIdle
    /\ PartIdle
    /\ TokenIdle

BatchesNext ==
    \/ StartBatches
    \/ AttemptBatch
    \/ LeaveInsert

SpecBatches == BatchesInit /\ [][BatchesNext]_vars

(***************************************************************************)
(* The batches of insert_ncu_data, slice by slice (SpecPartition): the     *)
(* loop of lines 258-282 over a list of new records of any length.         *)
(***************************************************************************)
\* a plausible slip: the slice takes its end with it
Slice_inclusive(list, from, to) ==
    SubSeq(list, from + 1, Min(to + 1, Len(list)))

\* list[from:to] of Python for 0 <= from <= to: the end is cut at len(list)
Slice(list, from, to) == SubSeq(list, from + 1, Min(to, Len(list)))

\* (len(new_data) + self.batch_size - 1) // self.batch_size  (line 260)
TotalBatches(n) == (n + batch_size - 1) \div batch_size

\* the lists new_data can be when the loop is reached (it is not empty, line
\* 253): its records are told apart by their place in the list
NewLists == {[k \in 1..n |-> k] : n \in 1..MaxNew}

partRest == <<tries, batches, pollVars, ingestVars, serviceVars, walkVars,
              lockVars, tokenVars>>

\* lines 258-264: total_batches is computed, range(0, len(new_data), 100)
StartSlicing ==
    /\ loader = "idle"
    /\ \E list \in NewLists :
         /\ new_records' = list
         /\ total_batches' = TotalBatches(Len(list))
    /\ offset' = 0
    /\ batch_num' = 0
    /\ successful_batches' = 0
    /\ taken' = <<>>
    /\ loader' = "slicing"
    /\ UNCHANGED partRest

\* lines 264-277: one iteration of the loop; insert_ncu_data_batch returns ok
TakeBatch ==
    /\ loader = "slicing"
    /\ offset < Len(new_records)
    /\ batch_num' = (offset \div batch_size) + 1
    /\ taken' = Append(taken, Slice(new_records, offset, offset + batch_size))
    /\ \E ok \in BOOLEAN :
         successful_batches' = successful_batches + (IF ok THEN 1 ELSE 0)
    /\ offset' = offset + batch_size
    /\ UNCHANGED <<new_records, total_batches, loader, partRest>>

\* the range is used up: lines 279-282
SlicingDone ==
    /\ loader = "slicing"
    /\ offset >= Len(new_records)
    /\ loader' = "sliced"
    /\ UNCHANGED <<new_records, total_batches, batch_num, successful_batches,
                   offset, taken, partRest>>

\* insert_ncu_data has returned (line 282)
LeaveSlicing ==
    /\ loader = "sliced"
    /\ new_records' = <<>>
    /\ total_batches' = 0
    /\ batch_num' = 0
    /\ successful_batches' = 0
    /\ offset' = 0
    /\ taken' = <<>>
    /\ loader' = "idle"
    /\ UNCHANGED partRest

PartitionInit ==
    /\ PollIdle("loop")
    /\ engine = "mysql"
    /\ IngestIdle
    /\ ServiceIdle
    /\ LockIdle
    /\ BatchIdle
    /\ PartIdle
    /\ TokenIdle
    /\ WalkIdle

PartitionNext ==
    \/ StartSlicing
    \/ TakeBatch
    \/ SlicingDone
    \/ LeaveSlicing

SpecPartition == PartitionInit /\ [][PartitionNext]_vars

(***************************************************************************)
(* DataCollector.login, request by request (SpecLogin): the GET of the     *)
(* login page and the POST of every attempt of lines 461-541.              *)
(***************************************************************************)
\* the csrf tokens the server hands out
Tokens == {"t1", "t2"}

\* what the page of a 200 answer carries: a csrf-token meta tag with a token,
\* one with an empty content, or none
Pages == Tokens \cup {"", "None"}

\* a plausible slip: the token is scraped once and kept for the retries
Scrape_once(page, previous) == IF previous # "None" THEN previous ELSE page

\* csrf_token = None; if csrf_meta: csrf_token = csrf_meta.get('content')
\* (lines 488-491)
Scrape(page, previous) == page

\* if csrf_token: login_data['_token'] = csrf_token  (lines 499-500), and the
\* X-CSRF-TOKEN header likewise (lines 510-511); "None": neither is sent
TokenSent(token) == IF token \in {"", "None"} THEN "None" ELSE token

loginRest == <<pc, stop_event, quiet, wait_left, depth, success, dbVars,
               outcome, failed_in_row, cool_elapsed, waited, ingestVars,
               serviceVars, walkVars, lockVars, batchVars, partVars>>

\* collect_data calls login()  (line 567); a cycle is not begun at the
\* ceiling of consecutive failures
CallLogin ==
    /\ login_at = "idle"
    /\ consecutive_failures < max_consecutive_failures
    /\ login_at' = "get"
    /\ attempt' = 0
    /\ UNCHANGED <<login_page, csrf_token, fetched, posted, sessionVars,
                   consecutive_failures, loginRest>>

\* except Exception (lines 531-539): sleep and retry, or count the failure
AttemptFailed ==
    IF attempt < max_retries - 1
    THEN /\ attempt' = attempt + 1
         /\ login_at' = "get"
         /\ UNCHANGED consecutive_failures
    ELSE /\ consecutive_failures' = LoginExhausted(consecutive_failures)
         /\ login_at' = "returned"
         /\ UNCHANGED attempt

\* lines 476-491: the login page is fetched and its token scraped
GetLoginPage ==
    /\ login_at = "get"
    /\ \/ \E page \in Pages :                          \* status 200
            /\ login_page' = page
            /\ csrf_token' = Scrape(page, csrf_token)
            /\ fetched' = Append(fetched,
                                 [attempt |-> attempt, token |-> page])
            /\ login_at' = "post"
            /\ UNCHANGED <<attempt, consecutive_failures>>
       \/ /\ AttemptFailed                  \* another status, or get raised
          /\ UNCHANGED <<login_page, csrf_token, fetched>>
    /\ UNCHANGED <<posted, sessionVars, loginRest>>

\* lines 493-529: the credentials are posted with the token in hand
PostLogin ==
    /\ login_at = "post"
    /\ posted' = Append(posted, [attempt |-> attempt,
                                 token |-> TokenSent(csrf_token)])
    /\ \/ /\ is_logged_in' = TRUE                       \* status 200
          /\ last_login_time' = "recent"
          /\ consecutive_failures' = 0
          /\ login_at' = "returned"
          /\ UNCHANGED attempt
       \/ /\ AttemptFailed              \* 419 or another status, or raised
          /\ UNCHANGED sessionVars
    /\ UNCHANGED <<login_page, csrf_token, fetched, loginRest>>

\* login() has returned; at the ceiling the loop resets the counter after
\* its cool-down (lines 691-705)
LoginReturns ==
    /\ login_at = "returned"
    /\ login_at' = "idle"
    /\ login_page' = "None"
    /\ csrf_token' = "None"
    /\ fetched' = <<>>
    /\ posted' = <<>>
    /\ attempt' = 0
    /\ consecutive_failures' =
         (IF consecutive_failures >= max_consecutive_failures
          THEN 0 ELSE consecutive_failures)
    /\ UNCHANGED <<sessionVars, loginRest>>

LoginInit ==
    /\ pc = "login"
    /\ stop_event = FALSE
    /\ quiet = FALSE
    /\ wait_left = 0
    /\ consecutive_failures = 0
    /\ is_logged_in = FALSE
    /\ last_login_time = "None"
    /\ attempt = 0
    /\ depth = 0
    /\ success = "none"
    /\ engine = "mysql"
    /\ txn = NoTxn
    /\ ncu_data = <<>>
    /\ data_collection_tracking = <<>>
    /\ payload = <<>>
    /\ persisted = NoTxn
    /\ outcome = "none"
    /\ failed_in_row = 0
    /\ cool_elapsed = 0
    /\ waited = NoWait
    /\ IngestIdle
    /\ ServiceIdle
    /\ LockIdle
    /\ BatchIdle
    /\ PartIdle
    /\ TokenIdle
    /\ WalkIdle

LoginNext ==
    \/ CallLogin
    \/ GetLoginPage
    \/ PostLogin
    \/ LoginReturns

SpecLogin == LoginInit /\ [][LoginNext]_vars

IngestInit ==
    /\ PollIdle("loop")
    /\ engine = "mysql"
    /\ backend \in Engines
    /\ tcu_overview = [e \in Engines |-> EmptyTable]
    /\ run = NoRun
    /\ ServiceIdle
    /\ LockIdle
    /\ BatchIdle
    /\ PartIdle
    /\ TokenIdle
    /\ WalkIdle

SpecIngest == IngestInit /\ [][IngestNext]_vars

(***************************************************************************)
(* Claims.                                                                 *)
(***************************************************************************)
CyclePcs == {"collect", "login", "fetch"}

TrackingRows == {data_collection_tracking[i] :
                   i \in 1..Len(data_collection_tracking)}

AAACount(data_list) ==
    Cardinality({i \in 1..Len(data_list) : data_list[i].project = "AAA"})

\* C1: every poll cycle the scheduler runs leaves exactly one row in the
\* tracking table, whatever its outcome (login failure, HTTP error, timeout,
\* malformed payload, storage failure or success).
C1_OneTrackingRowPerCycle ==
    pc = "after" => persisted.track = 1

\* C2: no item whose project value is "AAA" is ever written to ncu_data, on
\* either engine, on the success and on the failure path of insert_data.
C2_NoAAAInSnapshot ==
    \A i \in 1..Len(ncu_data) : ncu_data[i].project # "AAA"

\* C2 happens: a payload with an AAA item was stored and rows were committed.
C2_Witness ==
    /\ pc = "stored"
    /\ \E i \in 1..Len(payload) : payload[i].project = "AAA"
    /\ \E j \in 1..Len(ncu_data) : ncu_data[j].st = "committed"

C4_CooldownAfterFiveFailures ==
    pc \in CyclePcs => failed_in_row < max_consecutive_failures

\* C5: once in the cool-down, the worker starts no cycle before the whole
\* cool-down has elapsed, starts none at all when cancelled, and the counter
\* is zero when the next cycle begins.
C5_CooldownRunsInFull ==
    [][pc = "cooldown" =>
         \/ pc' = "cooldown" /\ cool_elapsed' < CooldownSeconds
         \/ pc' = "stopped" /\ stop_event
         \/ /\ pc' = "collect"
            /\ ~stop_event
            /\ cool_elapsed' >= CooldownSeconds
            /\ consecutive_failures' = 0]_vars

\* C5 happens: a cycle has just started out of a cool-down that ran in full.
C5_Witness ==
    /\ pc = "collect"
    /\ cool_elapsed = CooldownSeconds
    /\ consecutive_failures = 0

\* C6: within one cycle a 401 causes at most one re-login and one retried
\* fetch; a second 401 ends the cycle as failed.
C6_AtMostOneRelogin ==
    depth <= 1

\* C7: a batch of several records refused as too large (errno 1153) is always
\* cut in two halves that are re-submitted, on whichever attempt it happens.
C7_TooLargeBatchIsAlwaysSplit ==
    run.phase = "done" => ~run.events.missed

C9_BatchesHoldOnlyNewIds ==
    run.phase = "done" => ~run.events.stale

\* C10: no poll cycle is started while the quiet-hours window is active.
C10_NoCycleStartsInQuietHours ==
    (pc = "collect" /\ depth = 0) => ~quiet

\* C11: once the storage backend has fallen back to SQLite, every later
\* storage operation uses SQLite: no health check, reconnect or retry probes
\* MySQL again or switches engines.
C11_FallbackIsSticky ==
    [][engine = "sqlite" => engine' = "sqlite"]_vars

\* C14: every wait of the collection worker (interval sleep, quiet-hours
\* sleep, failure cool-down, error back-off, login retry back-off) is a wait
\* on the cancellation signal of at most 10 seconds.
C14_WaitsAreShortAndCancellable ==
    waited.secs > 0 => (waited.on_event /\ waited.secs <= 10)

\* C16: the collection loop leaves its running states only after the
\* cancellation signal has been set: no failed cycle, cool-down or exception
\* raised inside the loop ends the worker while the stop event is clear.
C16_StoppedOnlyWhenCancelled ==
    [][(pc # "stopped" /\ pc' = "stopped") => stop_event]_vars

\* C16 happens: the worker has ended after failed cycles, the event being set.
C16_Witness ==
    /\ pc = "stopped"
    /\ stop_event
    /\ failed_in_row > 0

\* C18: the data request is sent only on a fresh session: a cycle goes to its
\* fetch only when the collector is logged in with a login at most one hour
\* old, after a new login otherwise, and not at all when that login fails.
C18_FetchOnlyOnFreshSession ==
    [][/\ (pc # "fetch" /\ pc' = "fetch") =>
            (is_logged_in' /\ last_login_time' = "recent")
       /\ (pc = "collect" /\ pc' = "fetch") =>
            (is_logged_in /\ last_login_time = "recent")
       /\ (pc = "login" /\ pc' \notin {"login", "fetch"}) =>
            (pc' = "after" /\ success' = "false")]_vars

\* C18 happens: a cycle that had to log in again is about to fetch.
C18_Witness ==
    /\ pc = "fetch"
    /\ is_logged_in
    /\ consecutive_failures = 0
    /\ failed_in_row > 0

\* C19: one call of login() makes at most max_retries attempts, stops at the
\* first that succeeds, sleeps retry_delay * k between failed attempt k and
\* attempt k + 1 (30 s, then 60 s), and does not sleep after the last one.
C19_LoginRetriesAndBackoff ==
    [][pc = "login" =>
         \/ UNCHANGED <<pc, attempt, waited>>
         \/ /\ pc' = "login"
            /\ attempt' = attempt + 1
            /\ attempt' + 1 <= max_retries
            /\ waited' = Sleep(retry_delay * attempt')
            /\ waited'.secs \in {30, 60}
         \/ /\ pc' = "fetch"
            /\ is_logged_in'
            /\ waited'.secs = 0
         \/ /\ pc' = "after"
            /\ attempt + 1 = max_retries
            /\ waited'.secs = 0]_vars

\* C19 happens: the third attempt is about to be made, after the 60 s sleep.
C19_Witness ==
    /\ pc = "login"
    /\ attempt = 2
    /\ waited = Sleep(60)

\* C20: when all attempts of one login() fail, the consecutive-failure counter
\* goes up by exactly one and login() returns failure to its caller, whatever
\* each attempt raised.
C20_ExhaustedLoginCountsOnce ==
    [][(pc = "login" /\ pc' # "login" /\ ~is_logged_in') =>
         /\ consecutive_failures' = consecutive_failures + 1
         /\ pc' = "after"
         /\ success' = "false"
         /\ outcome' = "login_failed"]_vars

\* C20 happens: a cycle has ended on an exhausted login.
C20_Witness ==
    /\ pc = "after"
    /\ outcome = "login_failed"
    /\ consecutive_failures > 1

C17_FailedCycleIsFollowedByAnother ==
    (pc = "after" /\ success = "false") ~>
        ((pc = "collect" /\ depth = 0) \/ stop_event)

\* C17 happens: a cycle starts with failed cycles behind it, not cancelled.
C17_Witness ==
    /\ pc = "collect"
    /\ depth = 0
    /\ failed_in_row > 0
    /\ ~stop_event

\* C12: at any time at most one collection worker is alive, and so at most
\* one poll cycle is in progress, after any sequence of start() and stop()
\* calls.
C12_AtMostOneWorker ==
    Cardinality({w \in Threads : is_alive(w)}) <= 1

\* C13: stop() logs out only after the worker has finished its cycle, and
\* once stop() has returned no worker is inside a cycle (no further login,
\* fetch or storage write).
C13_StopDrainsTheCycle ==
    (caller = "logout" \/ returned = "stop_done") =>
        \A w \in Threads : thread[w] \notin InCycle

\* C26: every tracking row written with success = 0 carries a non-empty
\* error_message, the text of the error that made the poll fail: the filter's
\* AttributeError only for a malformed payload, the commit's error only after
\* the success row had been INSERTed, the tracking INSERT's error only when it
\* had not.
C26_FailureRowsCarryTheError ==
    \A r \in TrackingRows :
        r.success = 0 =>
          /\ r.error_message # ""
          /\ r.error_message \in {"cursor", "AttributeError", "tracking", "commit"}
          /\ r.error_message = "AttributeError" => FilterRaises(payload)
          /\ r.error_message \in {"tracking", "commit"} => ~FilterRaises(payload)
          /\ r.error_message = "commit" <=>
                \E q \in TrackingRows : q.success = 1

\* C26 happens: a failure row reporting the failed commit has been committed.
C26_Witness ==
    /\ pc = "stored"
    /\ \E r \in TrackingRows :
         r.success = 0 /\ r.st = "committed" /\ r.error_message = "commit"

\* every kept item of the payload has its snapshot row: the payload is well
\* formed and no item INSERT raised
AllItemsInserted ==
    /\ pc = "stored"
    /\ ~FilterRaises(payload)
    /\ Len(ncu_data) = Len(filtered_data(payload))

\* the one tracking row of a payload of n items of which k are AAA
OneSuccessRow ==
    /\ Len(data_collection_tracking) = 1
    /\ LET r == data_collection_tracking[1]
       IN  /\ r.success = 1
           /\ r.st = "committed"
           /\ r.records_collected = Len(payload)
           /\ r.records_inserted = Len(payload) - AAACount(payload)
           /\ r.excluded_records = AAACount(payload)

C29_MalformedItemIsIsolated ==
    (/\ pc = "stored"
     /\ \E r \in TrackingRows : r.error_message = "AttributeError") =>
        \A i \in 1..Len(payload) : payload[i].project \in {"AAA", NotADict}

\* C28: a 200 response whose body is no JSON, has no `data` field or whose
\* `data` is no list makes the cycle fail: collect_data returns False, the
\* failure counter goes up by one and nothing is handed to storage; it is
\* never a successful poll of zero records.
C28_MalformedBodyFailsTheCycle ==
    [][(pc = "fetch" /\ pc' = "after" /\ outcome' \in Bodies \ {"list"}) =>
         /\ success' = "false"
         /\ consecutive_failures' = consecutive_failures + 1
         /\ UNCHANGED dbVars
         /\ failed_in_row' >= 1]_vars

\* C28 happens: a cycle has ended on a 200 response without a `data` field.
C28_Witness ==
    /\ pc = "after"
    /\ outcome = "no_data"
    /\ success = "false"

\* C21: the walker processes the window [cursor, cursor + 1 h) only when the
\* window's end is strictly earlier than the time it has just read; when the
\* end equals or is later than now it sleeps and checks again, and fetches
\* nothing meanwhile.
C21_OnlyPastWindowsAreProcessed ==
    [][/\ walker = "loop" =>
            /\ current_now' = clock
            /\ walker' = "window" => current_start + Hour < clock
            /\ current_start + Hour >= clock =>
                 /\ walker' = "sleep"
                 /\ UNCHANGED <<current_start, idx, results, processed_windows>>
       /\ walker = "sleep" =>
            /\ walker' = "loop"
            /\ UNCHANGED <<current_start, idx, results, processed_windows>>
       /\ Len(results') > Len(results) =>
            /\ walker = "window"
            /\ current_start + Hour < current_now]_vars

\* C21 happens: the walker sleeps in front of a window that ends exactly now,
\* with a processed window behind it.
C21_Witness ==
    /\ walker = "sleep"
    /\ current_start + Hour = current_now
    /\ processed_windows # <<>>

\* C22: the cursor only moves forward and by whole windows: it moves when a
\* window has been processed, to that window's end, so that the processed
\* windows are contiguous one-hour intervals from the start time on; it does
\* not move while the walker waits for catch-up.
C22_CursorMovesByWholeWindows ==
    [][/\ current_start' \in {current_start, current_start + Hour}
       /\ current_start' # current_start =>
            /\ walker = "window" /\ idx > Len(projects)
            /\ processed_windows' = Append(processed_windows, current_start)
       /\ walker \in {"loop", "sleep"} => current_start' = current_start
       /\ current_start' = Len(processed_windows') * Hour
       /\ \A i \in 1..Len(processed_windows') :
            processed_windows'[i] = (i - 1) * Hour]_vars

\* C22 happens: two windows were processed and the walker waits for the third.
C22_Witness ==
    /\ walker = "sleep"
    /\ processed_windows = <<0, Hour>>
    /\ current_start = 2 * Hour

C24_NonOkRecordsAreHanded ==
    walker = "projected" =>
        /\ \A i \in 1..Len(processed_data) : processed_data[i].status_name # "ok"
        /\ Len(processed_data) =
             Cardinality({i \in 1..Len(project_data) :
                            project_data[i].status_name # "ok"})

\* the fetched records that are not "ok" and whose transformation did not raise
Transformable(record) == record.status_name # "ok" /\ record.form # "raises"

\* C24 (amended): the records handed to insert_ncu_data are, in order, the
\* fetched records whose status_name differs from "ok" and whose
\* transformation did not raise; none of them is "ok", and insert_ncu_data
\* is called only with a non-empty list of them.
C24_HandedAreTheTransformedNonOk ==
    walker = "projected" =>
        LET kept == SelectSeq(project_data, Transformable)
        IN  /\ Len(processed_data) = Len(kept)
            /\ \A i \in 1..Len(processed_data) :
                 /\ processed_data[i].status_name # "ok"
                 /\ processed_data[i].status_name = kept[i].status_name
            /\ results[1] \in {"stored", "insert_failed"} => processed_data # <<>>
            /\ processed_data # <<>> =>
                 results[1] \in {"stored", "insert_failed", "error"}

\* C24 happens: of two fetched records that are not "ok", one raised in its
\* transformation and the other was handed over and stored.
C24_Witness ==
    /\ walker = "projected"
    /\ results = <<"stored">>
    /\ Len(project_data) = 2
    /\ \A i \in 1..2 : project_data[i].status_name # "ok"
    /\ Len(processed_data) = 1

\* C25: every statement that changes storage and every replacement of the
\* shared connection handle runs while the thread holds the connection lock.
C25_MutationsHoldTheLock ==
    \A t \in Writers :
        writer[t].at \in {"create_connection", "statements", "commit"}
            => connection_lock = t

\* C30: a batch whose insert fails for another reason than its size is tried
\* at most three times, with a reconnect before the retry after a lost
\* connection, and is then reported as failed; the batches after it are
\* still attempted, so insert_ncu_data ends with every batch gone through.
C30_FailedBatchIsReportedAndLoopGoesOn ==
    /\ Len(tries) <= batch_max_retries
    /\ \A b \in 1..Len(batches) : Len(batches[b].tries) <= batch_max_retries
    /\ \A k \in 1..Len(tries) :
         tries[k].err = "e2013" => tries[k].reconnect # "none"
    /\ loader \in {"returned", "raised"} => Len(batches) = total_batches

C36_PollIsCommittedAtomically ==
    pc = "stored" =>
        LET snapshots == {i \in 1..Len(ncu_data) : ncu_data[i].st = "committed"}
            committed == {r \in TrackingRows : r.st = "committed"}
        IN  /\ (\E r \in committed : r.success = 0) => snapshots = {}
            /\ snapshots # {} => committed # {}

\* the ids that have a row in the table of one engine or the other
StoredSomewhere == UNION {StoredIds(tcu_overview[e]) : e \in Engines}

\* C37: insert_ncu_data_batch returns True only when every record of its
\* batch is stored, by its own executemany or by both halves of a bisection:
\* after a call whose one batch was reported as inserted, no id of the list
\* is missing from storage.
C37_SuccessMeansEveryRecordStored ==
    (run.phase = "done" /\ run.ret) =>
        \A i \in 1..Len(run.data_list) : run.data_list[i] \in StoredSomewhere

\* C37 happens: a batch of new records was refused as too large, cut in two,
\* and reported as inserted.
C37_Witness ==
    /\ run.phase = "done"
    /\ run.ret
    /\ run.events.split
    /\ \E i \in 1..Len(run.data_list) : run.data_list[i] \notin run.before

C32_DelayBetweenFetches ==
    \A j \in 1..Len(results) : \A k \in (j + 1)..Len(results) :
        (results[j] # "skipped" /\ results[k] # "skipped") =>
            \E m \in j..(k - 1) : pauses[m] > 0

\* C39: a window that is being processed is left behind whatever became of
\* its projects: the cursor moves to its end when the project loop is over,
\* which it always comes to be; and no window is processed twice, the starts
\* of the processed windows are all different and all before the cursor.
C39_FailedWindowsAreNotRetried ==
    /\ [][/\ (walker = "window" /\ walker' # "window") =>
               /\ current_start' = current_start + Hour
               /\ processed_windows' = Append(processed_windows, current_start)
          /\ \A i \in 1..Len(processed_windows') :
               /\ processed_windows'[i] < current_start'
               /\ \A j \in 1..Len(processed_windows') :
                    processed_windows'[i] = processed_windows'[j] => i = j]_vars
    /\ \A w \in 0..MaxClock :
         (walker = "window" /\ current_start = w) ~> (current_start > w)

\* C39 happens: the walker is at its second window after a first one of which
\* no project was stored.
C39_Witness ==
    /\ walker = "window"
    /\ processed_windows = <<0>>
    /\ Len(results) = Len(projects)
    /\ \A j \in 1..Len(results) :
         results[j] \in {"no_data", "error", "insert_failed"}

\* the least number of lists of at most d records that n records fill
Ceil(n, d) == CHOOSE k \in 0..n : k * d >= n /\ (k - 1) * d < n

RECURSIVE Flatten(_)
Flatten(lists) ==
    IF lists = <<>> THEN <<>> ELSE Head(lists) \o Flatten(Tail(lists))

C33_PostCarriesTheTokenOfItsAttempt ==
    /\ \A k \in 1..Len(posted) :
         \E j \in 1..Len(fetched) :
           /\ fetched[j].attempt = posted[k].attempt
           /\ posted[k].token =
                (IF fetched[j].token \in Tokens
                 THEN fetched[j].token ELSE "None")
    /\ \A j \in 1..Len(fetched) : \A k \in 1..Len(fetched) :
         fetched[j].attempt = fetched[k].attempt => j = k
    /\ login_at = "post" => /\ fetched # <<>>
                            /\ fetched[Len(fetched)].attempt = attempt
                            /\ csrf_token = login_page

\* C33 happens: the first POST was refused, the page of the second attempt
\* carried another token and the retry that posted it logged in.
C33_Witness ==
    /\ login_at = "returned"
    /\ is_logged_in
    /\ Len(posted) = 2
    /\ posted[1] = [attempt |-> 0, token |-> "t1"]
    /\ posted[2] = [attempt |-> 1, token |-> "t2"]

====
